---- MODULE Spec2Model ----
(***************************************************************************)
(* VigilHSM: the IVigilHSM contract and its two adapters, VigilHSMPKCS11   *)
(* (graphene-pk11 driver, a token of key objects) and VigilHSMVault        *)
(* (node-vault client, the transit engine).  A caller holds adapter        *)
(* instances and awaits one call at a time; the driver, the token and the  *)
(* transit service are the environment, and any of their requests may fail.*)
(***************************************************************************)
EXTENDS Integers, Sequences, FiniteSets, TLC

(* ------------------------------ bounds -------------------------------- *)

\* Key pairs the token holds at most; the driver's generateKeyPair throws
\* when the token is full.
MaxPairs == 2

\* Session handles the driver hands out at most.
MaxSessions == 2

Inst == {1, 2}

Labels == {"k1", "k2"}

\* Payload strings, as sequences of UTF-16 code units: "A" and two different
\* unpaired high surrogates.
Payloads == {<<65>>, <<55296>>, <<55297>>}

\* The payloads a caller signs.
Signed == {<<65>>, <<55296>>}

NULL == "null"

PairIds == 1..(MaxPairs + 1)

Handles == 1..MaxSessions

(* ----------------------------- encodings ------------------------------ *)

IsHigh(u) == u >= 55296 /\ u <= 56319

IsLow(u) == u >= 56320 /\ u <= 57343

\* Buffer.from(payload): the UTF-8 bytes of a string; an unpaired surrogate
\* becomes U+FFFD (EF BF BD).
RECURSIVE Utf8(_)
Utf8(s) ==
    IF s = <<>> THEN <<>>
    ELSE LET u == Head(s) IN
         IF u < 128 THEN <<u>> \o Utf8(Tail(s))
         ELSE IF u < 2048
              THEN <<192 + (u \div 64), 128 + (u % 64)>> \o Utf8(Tail(s))
         ELSE IF IsHigh(u) /\ Len(s) > 1 /\ IsLow(s[2])
              THEN LET cp == 65536 + (u - 55296) * 1024 + (s[2] - 56320) IN
                   << 240 + (cp \div 262144), 128 + ((cp \div 4096) % 64),
                      128 + ((cp \div 64) % 64), 128 + (cp % 64) >>
                   \o Utf8(Tail(Tail(s)))
         ELSE IF IsHigh(u) \/ IsLow(u)
              THEN <<239, 191, 189>> \o Utf8(Tail(s))
         ELSE << 224 + (u \div 4096), 128 + ((u \div 64) % 64), 128 + (u % 64) >>
              \o Utf8(Tail(s))

\* buffer.toString('base64'): sextets 0..63, and 64 for the padding '='.
RECURSIVE Base64(_)
Base64(b) ==
    IF Len(b) = 0 THEN <<>>
    ELSE IF Len(b) = 1
         THEN << b[1] \div 4, (b[1] % 4) * 16, 64, 64 >>
    ELSE IF Len(b) = 2
         THEN << b[1] \div 4, (b[1] % 4) * 16 + (b[2] \div 16), (b[2] % 16) * 4, 64 >>
    ELSE << b[1] \div 4, (b[1] % 4) * 16 + (b[2] \div 16),
            (b[2] % 16) * 4 + (b[3] \div 64), b[3] % 64 >>
         \o Base64(SubSeq(b, 4, Len(b)))

HexDigits ==
    << "0", "1", "2", "3", "4", "5", "6", "7",
       "8", "9", "a", "b", "c", "d", "e", "f" >>

IsHex(c) == \E i \in 1..16 : HexDigits[i] = c

HexVal(c) == (CHOOSE i \in 1..16 : HexDigits[i] = c) - 1

\* buffer.toString('hex')
RECURSIVE HexEncode(_)
HexEncode(b) ==
    IF b = <<>> THEN <<>>
    ELSE << HexDigits[(Head(b) \div 16) + 1], HexDigits[(Head(b) % 16) + 1] >>
         \o HexEncode(Tail(b))

\* Buffer.from(signature, 'hex'): two digits a byte, cut at the first pair
\* that is not two hex digits.
RECURSIVE HexDecode(_)
HexDecode(s) ==
    IF Len(s) < 2 \/ ~IsHex(s[1]) \/ ~IsHex(s[2]) THEN <<>>
    ELSE << HexVal(s[1]) * 16 + HexVal(s[2]) >> \o HexDecode(Tail(Tail(s)))

(* --------------------- the driver's RSA mechanism --------------------- *)

RECURSIVE WeightedSum(_, _)
WeightedSum(m, i) ==
    IF i > Len(m) THEN 0 ELSE i * m[i] + WeightedSum(m, i + 1)

\* The digest of SHA256_RSA_PKCS, one byte here; it has no collision among
\* the messages of Payloads.
Digest(m) == WeightedSum(m, 1) % 251

\* The signature the private key of pair `pair` gives message m: bytes of a
\* fixed length.
RsaSign(pair, m) == << pair, Digest(m) >>

(* ------------------------------- state -------------------------------- *)

VARIABLES
    hsm,      \* per adapter instance: type, config and the class's fields
    life,     \* per instance: "new", "failed", "ready" or "closed"
    lib,      \* the PKCS#11 library of the process: initialized, open sessions, login
    token,    \* the token's key objects, per class
    vkeys,    \* the transit engine's keys, by name
    held,     \* the signature the caller got from its latest successful sign
    last,     \* the call the caller is awaiting or has just been answered
    pending   \* the calls the caller started without awaiting them, each
              \* suspended at one of its awaits

vars == << hsm, life, lib, token, vkeys, held, last, pending >>

Min(S) == CHOOSE x \in S : \A y \in S : x <= y

Ok(v) == [st |-> "ok", val |-> v, err |-> [kind |-> "none", cause |-> "none"]]

Throw(k, c) == [st |-> "throw", val |-> NULL, err |-> [kind |-> k, cause |-> c]]

\* One request to the driver or to the transit service, and whether it was
\* answered or threw.
Call(c, ok) == [c |-> c, ok |-> ok]

Calls(names) == [k \in 1..Len(names) |-> Call(names[k], TRUE)]

\* ... the last of them threw.
CallsFailing(names) ==
    [k \in 1..Len(names) |-> Call(names[k], k < Len(names))]

Issued(calls, c) == Cardinality({k \in 1..Len(calls) : calls[k].c = c})

Answered(calls, c) == \E k \in 1..Len(calls) : calls[k].c = c /\ calls[k].ok

\* The caller between two calls; `after` says whether the call it has just
\* been answered was a sign that returned a signature.
Idle == [op |-> "idle", after |-> "other"]

NoSig == [label |-> NULL, payload |-> <<>>, sig |-> <<>>, key |-> 0]

(* ------------------------ utils.ts: getHSM ---------------------------- *)

NoAdapter ==
    [type |-> "none", cfg |-> NULL, pkcs11 |-> NULL, session |-> 0,
     initialized |-> FALSE]

\* getHSM(type): the adapter as constructed, initialized = false.  A session
\* handle is a number of Handles and 0 is no session; slot -1 is no configured
\* slot index.
getHSM(type) ==
    IF type = "softhsm"
    THEN [type |-> "softhsm",
          cfg |-> [tokenLabel |-> "vigil-token", slot |-> -1],
          pkcs11 |-> NULL, session |-> 0, initialized |-> FALSE]
    ELSE [type |-> "vault", cfg |-> NULL, pkcs11 |-> NULL, session |-> 0,
          initialized |-> FALSE]

(* ------------------- VigilHSMPKCS11 (local module) -------------------- *)

\* A slot's token label as the driver reports it: blank-padded.
Padded(text) == [text |-> text, pad |-> " "]

Trim(l) == l.text

\* The slots with a token present that getSlots(true) may report.
SlotLists ==
    { << Padded("other") >>, << Padded("other"), Padded("vigil-token") >> }

\* The slot initialize() picks (an index into slots), or the error it throws.
ResolveSlot(cfg, slots) ==
    IF cfg.tokenLabel # NULL /\ cfg.tokenLabel # ""
    THEN LET hit == {k \in 1..Len(slots) : Trim(slots[k]) = cfg.tokenLabel} IN
         IF hit = {} THEN [slot |-> 0, err |-> "TokenNotFound"]
         ELSE [slot |-> Min(hit), err |-> "none"]
    ELSE IF cfg.slot # -1
         THEN IF cfg.slot + 1 \in 1..Len(slots)
              THEN [slot |-> cfg.slot + 1, err |-> "none"]
              ELSE [slot |-> 0, err |-> "SlotNotFound"]
    ELSE IF Len(slots) = 0 THEN [slot |-> 0, err |-> "NoSlots"]
         ELSE [slot |-> 1, err |-> "none"]

PInitResult(h, l, out, names) ==
    [h |-> h, l |-> l, out |-> out,
     calls |-> IF out.st = "ok" THEN Calls(names) ELSE CallsFailing(names)]

\* The try block of initialize(): adapter h, library l, the call f that
\* throws, the slots the driver reports.  Gives the adapter, the library, the
\* outcome and the driver calls made.  What slots.items(n) gives for an index
\* with no slot is the driver wrapper's affair: nothing, and `!slot` throws
\* the not-found error, or a slot object with no handle, which passes the
\* test and on which open throws (f = "open").
Establish(h, l, f, slots) ==
    IF f = "require"
    THEN [h |-> h, l |-> l, out |-> Throw("NotInstalled", "require"), calls |-> <<>>]
    ELSE IF f = "load"
         THEN PInitResult(h, l, Throw("DriverError", "load"), <<"load">>)
    ELSE LET h1 == [h EXCEPT !.pkcs11 = "module"] IN
    IF f = "initialize" \/ l.initialized
    THEN PInitResult(h1, l,
             Throw("DriverError",
                   IF l.initialized THEN "AlreadyInitialized" ELSE "initialize"),
             <<"load", "initialize">>)
    ELSE LET l1 == [l EXCEPT !.initialized = TRUE] IN
    IF f = "getSlots"
    THEN PInitResult(h1, l1, Throw("DriverError", "getSlots"),
                     <<"load", "initialize", "getSlots">>)
    ELSE LET r == ResolveSlot(h.cfg, slots) IN
    IF r.slot = 0 /\ ~(r.err = "SlotNotFound" /\ f = "open")
    THEN [h |-> h1, l |-> l1, out |-> Throw("NotFound", r.err),
          calls |-> Calls(<<"load", "initialize", "getSlots">>)]
    ELSE LET free == Handles \ l1.open IN
    IF f = "open" \/ free = {}
    THEN PInitResult(h1, l1, Throw("DriverError", "open"),
                     <<"load", "initialize", "getSlots", "open">>)
    ELSE LET h2 == [h1 EXCEPT !.session = Min(free)]
             l2 == [l1 EXCEPT !.open = @ \cup {Min(free)}] IN
    IF f = "login" \/ l2.login
    THEN PInitResult(h2, l2, Throw("DriverError", "login"),
                     <<"load", "initialize", "getSlots", "open", "login">>)
    ELSE PInitResult([h2 EXCEPT !.initialized = TRUE], [l2 EXCEPT !.login = TRUE],
                     Ok(NULL),
                     <<"load", "initialize", "getSlots", "open", "login">>)

\* initialize() that establishes again whatever `initialized` says.
InitializeAgain(h, l, f, slots) == Establish(h, l, f, slots)

\* initialize(): nothing when the adapter is initialized, else the try block.
PInitialize(h, l, f, slots) ==
    IF h.initialized THEN [h |-> h, l |-> l, out |-> Ok(NULL), calls |-> <<>>]
    ELSE Establish(h, l, f, slots)

\* The driver serves a session call only on an initialized library, an open
\* session and, for private objects, a logged-in user.
SessionLive(h, l) == l.initialized /\ h.session \in l.open /\ l.login

\* Teardown calls without a catch block: a failure is thrown on.
Propagate(calls) ==
    IF \A k \in 1..Len(calls) : calls[k].ok THEN Ok(NULL)
    ELSE Throw("DriverError", "teardown")

\* The `catch { }` around each teardown call of close(): whatever the calls
\* did, nothing is thrown on.
Ignore(calls) == Ok(NULL)

\* close() that gives up its teardown at the logout.
PCloseStopping(h, l, fails) ==
    [h |-> [h EXCEPT !.session = 0, !.pkcs11 = NULL, !.initialized = FALSE],
     l |-> l,
     out |-> Ok(NULL),
     calls |-> IF h.session # 0 THEN << Call("logout", FALSE) >> ELSE <<>>]

\* close(): `fails` are the teardown calls that throw on their own.
PClose(h, l, fails) ==
    LET hasS == h.session # 0
        logoutOk == hasS /\ SessionLive(h, l) /\ "logout" \notin fails
        l1 == IF logoutOk THEN [l EXCEPT !.login = FALSE] ELSE l
        closeOk == hasS /\ l1.initialized /\ h.session \in l1.open
                   /\ "close" \notin fails
        l2 == IF closeOk
              THEN [l1 EXCEPT !.open = @ \ {h.session},
                              !.login = @ /\ (l1.open \ {h.session}) # {}]
              ELSE l1
        hasM == h.pkcs11 # NULL
        finOk == hasM /\ l2.initialized /\ "finalize" \notin fails
        l3 == IF finOk
              THEN [initialized |-> FALSE, open |-> {}, login |-> FALSE]
              ELSE l2
        calls == (IF hasS THEN << Call("logout", logoutOk), Call("close", closeOk) >>
                  ELSE <<>>)
                 \o (IF hasM THEN << Call("finalize", finOk) >> ELSE <<>>)
    IN  [h |-> [h EXCEPT !.session = 0, !.pkcs11 = NULL, !.initialized = FALSE],
         l |-> l3,
         out |-> Ignore(calls),
         calls |-> calls]

(* ---- key objects ---- *)

\* The pairs of the key objects in objs.
PairsOf(objs) == {o.pair : o \in objs}

LivePairs(t) == PairsOf(t.priv) \cup PairsOf(t.pub)

\* The objects of one class that carry the label.
Matching(objs, label) == {o \in objs : o.label = label}

\* The sequences that list each member of S once.
Orders(S) ==
    {q \in [1..Cardinality(S) -> S] : \A j, k \in 1..Cardinality(S) : q[j] = q[k] => j = k}

\* session.find({class, label}): the matching objects.  The driver lists them
\* in an order it does not specify: any of these.
Find(objs, label) == Orders(Matching(objs, label))

\* object.destroy()
Destroy(objs, o) == objs \ {o}

PublicTemplate(label, pair) ==
    [class |-> "PUBLIC_KEY", keyType |-> "RSA", token |-> TRUE, label |-> label,
     pair |-> pair, verify |-> TRUE, encrypt |-> TRUE, wrap |-> TRUE]

\* A private key template that lets the key be read out.
PrivateTemplateReadable(label, pair) ==
    [class |-> "PRIVATE_KEY", keyType |-> "RSA", token |-> TRUE, label |-> label,
     pair |-> pair, sign |-> TRUE, decrypt |-> TRUE, unwrap |-> TRUE,
     private |-> TRUE, sensitive |-> FALSE, extractable |-> TRUE]

PrivateTemplate(label, pair) ==
    [class |-> "PRIVATE_KEY", keyType |-> "RSA", token |-> TRUE, label |-> label,
     pair |-> pair, sign |-> TRUE, decrypt |-> TRUE, unwrap |-> TRUE,
     private |-> TRUE, sensitive |-> TRUE, extractable |-> FALSE]

\* The modulus of a pair's public key.
Modulus(pair) == << pair >>

\* The private exponent of a pair's private key.
PrivateExponent(pair) == << pair, pair >>

\* object.getAttribute({attr: null}): the driver gives an RSA public key's
\* modulus and an RSA private key's private exponent when the key is neither
\* sensitive nor unextractable; an RSA key has no `value`, and the driver
\* throws for what it does not give.
GetAttribute(o, attr) ==
    CASE o.class = "PUBLIC_KEY" /\ attr = "modulus" ->
             [threw |-> FALSE, val |-> Modulus(o.pair)]
      [] o.class = "PRIVATE_KEY" /\ attr = "modulus" ->
             [threw |-> FALSE, val |-> Modulus(o.pair)]
      [] o.class = "PRIVATE_KEY" /\ attr = "privateExponent"
           /\ ~o.sensitive /\ o.extractable ->
             [threw |-> FALSE, val |-> PrivateExponent(o.pair)]
      [] OTHER -> [threw |-> TRUE, val |-> <<>>]

\* The body of generateRSAKeyPair after its initialize(): token t, the key
\* material `pair` the driver generates, f the driver call that throws
\* (0: none).
PGenerateBody(h, l, t, label, pair, f) ==
    IF f = 1 \/ ~SessionLive(h, l) \/ Cardinality(LivePairs(t)) >= MaxPairs
    THEN [t |-> t, out |-> Throw("DriverError", "generateKeyPair"),
          calls |-> CallsFailing(<<"generateKeyPair">>)]
    ELSE LET t1 == [priv |-> t.priv \cup {PrivateTemplate(label, pair)},
                    pub |-> t.pub \cup {PublicTemplate(label, pair)}] IN
         IF f = 2
         THEN [t |-> t1, out |-> Throw("DriverError", "getAttribute"),
               calls |-> CallsFailing(<<"generateKeyPair", "getAttribute">>)]
         ELSE [t |-> t1,
               out |-> Ok([publicKey |->
                         HexEncode(GetAttribute(PublicTemplate(label, pair),
                                                "modulus").val)]),
               calls |-> Calls(<<"generateKeyPair", "getAttribute">>)]

\* findPrivateKey / findPublicKey, keys being what session.find listed: the
\* first of them, or the error thrown.
FindKey(keys, what) ==
    IF Len(keys) = 0
    THEN [found |-> FALSE, out |-> Throw("NotFound", what)]
    ELSE [found |-> TRUE, key |-> keys[1]]

\* The body of signRSA after its initialize(): keys is the driver's listing
\* of the label's private keys, f the driver call that throws (0: none).
PSignBody(h, l, keys, payload, f) ==
    IF f = 1 \/ ~SessionLive(h, l)
    THEN [out |-> Throw("DriverError", "find"), calls |-> CallsFailing(<<"find">>)]
    ELSE LET k == FindKey(keys, "PrivateKey") IN
         IF ~k.found THEN [out |-> k.out, calls |-> Calls(<<"find">>)]
         ELSE IF f = 2
              THEN [out |-> Throw("DriverError", "sign"),
                    calls |-> CallsFailing(<<"find", "sign">>)]
         ELSE [out |-> Ok(HexEncode(RsaSign(k.key.pair, Utf8(payload)))),
               calls |-> Calls(<<"find", "sign">>)]

\* The body of getPublicKey after its initialize(): keys is the driver's
\* listing of the label's public keys, f the driver call that throws on its
\* own (0: none; 1: find; 2: the read of the modulus).  The read of `value`
\* comes first and its failure is caught.
PGetPublicKeyBody(h, l, keys, f) ==
    IF f = 1 \/ ~SessionLive(h, l)
    THEN [out |-> Throw("DriverError", "find"), calls |-> CallsFailing(<<"find">>)]
    ELSE LET k == FindKey(keys, "PublicKey") IN
         IF ~k.found THEN [out |-> k.out, calls |-> Calls(<<"find">>)]
         ELSE LET v == GetAttribute(k.key, "value")
                  m == GetAttribute(k.key, "modulus")
                  c1 == << Call("find", TRUE), Call("getAttribute value", ~v.threw) >>
              IN
              IF ~v.threw /\ v.val # <<>>
              THEN [out |-> Ok(HexEncode(v.val)), calls |-> c1]
              ELSE IF f = 2 \/ m.threw \/ m.val = <<>>
                   THEN [out |-> Throw("Unable", "extract"),
                         calls |-> c1 \o << Call("getAttribute", FALSE) >>]
              ELSE [out |-> Ok(HexEncode(m.val)),
                    calls |-> c1 \o << Call("getAttribute", TRUE) >>]

\* A verification that does not look at the data signed.
VerifyAnyData(pair, data, signature) ==
    [threw |-> FALSE, valid |-> (Len(signature) > 0 /\ signature[1] = pair)]

\* createVerify(mechanism, publicKey).once(data, signature): the driver
\* throws on a signature of the wrong length, and else gives its verdict.
DriverVerify(pair, data, signature) ==
    IF Len(signature) # Len(RsaSign(pair, data))
    THEN [threw |-> TRUE, valid |-> FALSE]
    ELSE [threw |-> FALSE, valid |-> (signature = RsaSign(pair, data))]

\* verifyRSA with the key lookup inside its try block: every failure is the
\* verdict false.
PVerifyAllCaught(h, l, keys, payload, signature, f) ==
    IF f = 1 \/ ~SessionLive(h, l)
    THEN [out |-> Ok(FALSE), calls |-> CallsFailing(<<"find">>)]
    ELSE IF Len(keys) = 0 THEN [out |-> Ok(FALSE), calls |-> Calls(<<"find">>)]
    ELSE LET v == DriverVerify(keys[1].pair, Utf8(payload), HexDecode(signature)) IN
         IF f = 2 \/ v.threw
         THEN [out |-> Ok(FALSE), calls |-> CallsFailing(<<"find", "verify">>)]
         ELSE [out |-> Ok(v.valid), calls |-> Calls(<<"find", "verify">>)]

\* The body of verifyRSA after its initialize(): keys is the driver's listing
\* of the label's public keys.
PVerifyBody(h, l, keys, payload, signature, f) ==
    IF f = 1 \/ ~SessionLive(h, l)
    THEN [out |-> Throw("DriverError", "find"), calls |-> CallsFailing(<<"find">>)]
    ELSE LET k == FindKey(keys, "PublicKey") IN
         IF ~k.found THEN [out |-> k.out, calls |-> Calls(<<"find">>)]
         ELSE LET v == DriverVerify(k.key.pair, Utf8(payload), HexDecode(signature)) IN
              IF f = 2 \/ v.threw
              THEN [out |-> Ok(FALSE), calls |-> CallsFailing(<<"find", "verify">>)]
              ELSE [out |-> Ok(v.valid), calls |-> Calls(<<"find", "verify">>)]

\* The loop `for (i < keys.length) keys.items(i).destroy()` over the objects
\* found, the n-th destroy throwing (0: none): the objects left and the
\* calls made.
RECURSIVE DestroyAll(_, _, _)
DestroyAll(objs, found, n) ==
    IF found = <<>> THEN [objs |-> objs, calls |-> <<>>, threw |-> FALSE]
    ELSE IF n = 1
         THEN [objs |-> objs, calls |-> << Call("destroy", FALSE) >>, threw |-> TRUE]
    ELSE LET rest == DestroyAll(Destroy(objs, Head(found)), Tail(found),
                                IF n = 0 THEN 0 ELSE n - 1) IN
         [objs |-> rest.objs, calls |-> << Call("destroy", TRUE) >> \o rest.calls,
          threw |-> rest.threw]

\* A deletion that stops after the first item.
FirstOnly(keys) == IF keys = <<>> THEN <<>> ELSE << keys[1] >>

\* `for (let i = 0; i < keys.length; i++)`: the items the loop visits.
Visited(keys) == keys

\* The body of deleteKeyPair after its initialize(): privs and pubs are the
\* driver's listings of the label's keys, f is the driver call that throws,
\* counted over find, the destroys, find, the destroys (0: none).
PDeleteBody(h, l, t, privs, pubs, f) ==
    IF f = 1 \/ ~SessionLive(h, l)
    THEN [t |-> t, out |-> Throw("DriverError", "find"),
          calls |-> CallsFailing(<<"find">>)]
    ELSE LET d1 == DestroyAll(t.priv, Visited(privs), IF f >= 2 THEN f - 1 ELSE 0)
             c1 == << Call("find", TRUE) >> \o d1.calls
         IN
         IF d1.threw
         THEN [t |-> [t EXCEPT !.priv = d1.objs],
               out |-> Throw("DriverError", "destroy"), calls |-> c1]
         ELSE IF f = Len(c1) + 1
              THEN [t |-> [t EXCEPT !.priv = d1.objs],
                    out |-> Throw("DriverError", "find"),
                    calls |-> c1 \o << Call("find", FALSE) >>]
         ELSE LET d2 == DestroyAll(t.pub, Visited(pubs),
                                   IF f > Len(c1) + 1 THEN f - Len(c1) - 1 ELSE 0)
                  c2 == c1 \o << Call("find", TRUE) >> \o d2.calls
              IN [t |-> [priv |-> d1.objs, pub |-> d2.objs],
                  out |-> IF d2.threw THEN Throw("DriverError", "destroy")
                          ELSE Ok(NULL),
                  calls |-> c2]

(* ------------------- VigilHSMVault (remote transit) ------------------- *)

KeyIds == 1..(Cardinality(Labels) + 1)

NoKey == [kid |-> 0, deletable |-> FALSE]

\* The algorithm argument of generateKeyPair; "omitted" is a call without it.
Algorithms == {"rsa", "ecdsa", "ed25519", "omitted", "dsa"}

\* ... as callers pass it to the local adapter.
PkcsAlgorithms == {"rsa", "ecdsa"}

\* initialize() that checks nothing and sets nothing.
VInitializeSkipped(h, f) == [h |-> h, out |-> Ok(NULL), calls |-> <<>>]

\* initialize() that lets a failed liveness check pass.
VInitializeQuiet(h, f) ==
    IF h.initialized THEN [h |-> h, out |-> Ok(NULL), calls |-> <<>>]
    ELSE IF f = "health"
         THEN [h |-> h, out |-> Ok(NULL), calls |-> CallsFailing(<<"health">>)]
    ELSE [h |-> [h EXCEPT !.initialized = TRUE], out |-> Ok(NULL),
          calls |-> Calls(<<"health">>)]

\* initialize(): f = "health" when the liveness check throws.
VInitialize(h, f) ==
    IF h.initialized THEN [h |-> h, out |-> Ok(NULL), calls |-> <<>>]
    ELSE IF f = "health"
         THEN [h |-> h, out |-> Throw("VaultInitialize", "network"),
               calls |-> CallsFailing(<<"health">>)]
    ELSE [h |-> [h EXCEPT !.initialized = TRUE], out |-> Ok(NULL),
          calls |-> Calls(<<"health">>)]

\* The switch of generateKeyPair: the transit key type, "" when the default
\* branch throws.
VaultType(algorithm) ==
    CASE algorithm = "rsa" -> "rsa-2048"
      [] algorithm = "ecdsa" -> "ecdsa-p256"
      [] algorithm \in {"ed25519", "omitted"} -> "ed25519"
      [] OTHER -> ""

\* The text of a key's public_key in the key metadata.
PublicKeyText(kid) == << 75, 48 + kid >>

\* The body of generateKeyPair after its initialize(): vk the service's
\* keys, kid the key material the service generates for a new name, f the
\* request that fails (0: none).  A write to an existing name changes nothing.
VGenerateBody(vk, label, algorithm, kid, f) ==
    IF VaultType(algorithm) = ""
    THEN [vk |-> vk, out |-> Throw("Unsupported", algorithm), calls |-> <<>>]
    ELSE IF f = 1
         THEN [vk |-> vk, out |-> Throw("VaultGenerate", "network"),
               calls |-> CallsFailing(<<"write keys">>)]
    ELSE LET vk1 == IF vk[label] = NoKey
                    THEN [vk EXCEPT ![label] =
                             [kid |-> kid, deletable |-> FALSE]]
                    ELSE vk IN
         IF f = 2
         THEN [vk |-> vk1, out |-> Throw("VaultGenerate", "network"),
               calls |-> CallsFailing(<<"write keys", "read keys">>)]
         ELSE [vk |-> vk1,
               out |-> Ok([publicKey |-> HexEncode(Utf8(PublicKeyText(vk1[label].kid)))]),
               calls |-> Calls(<<"write keys", "read keys">>)]

\* A signature string of the service is <engine tag>:<version tag>:<body>,
\* here the sequence of its parts between the colons: a part is plain text,
\* or the base64 text of the signature key kid gives input.
Text(t) == [text |-> t, kid |-> 0, input |-> <<>>]

SigBody(kid, input) == [text |-> "", kid |-> kid, input |-> input]

\* The service's answer to transit/sign/<name>.
TransitSign(vk, label, input) ==
    IF vk[label] = NoKey THEN [ok |-> FALSE, cause |-> "signing key not found"]
    ELSE [ok |-> TRUE,
          signature |-> << Text("vault"), Text("v1"), SigBody(vk[label].kid, input) >>]

\* A service that takes the last part of the signature for its body, with
\* or without the tags before it.
TransitVerifyBare(vk, label, input, signature) ==
    IF vk[label] = NoKey
    THEN [ok |-> FALSE, cause |-> "signature verification key not found"]
    ELSE [ok |-> TRUE,
          valid |-> (signature[Len(signature)] = SigBody(vk[label].kid, input))]

\* The service's answer to transit/verify/<name>: an error for a missing key
\* or a signature that is not <engine tag>:<version tag>:<body>, else its
\* verdict.
TransitVerify(vk, label, input, signature) ==
    IF vk[label] = NoKey
    THEN [ok |-> FALSE, cause |-> "signature verification key not found"]
    ELSE IF Len(signature) # 3 THEN [ok |-> FALSE, cause |-> "invalid signature"]
    ELSE IF signature[1] # Text("vault") \/ signature[2] # Text("v1")
         THEN [ok |-> FALSE, cause |-> "invalid signature"]
    ELSE [ok |-> TRUE, valid |-> (signature[3] = SigBody(vk[label].kid, input))]

\* sign that sends its request a second time when the first is lost.
VSignRetried(vk, label, payload, f) ==
    LET r == TransitSign(vk, label, Base64(Utf8(payload))) IN
    IF ~r.ok
    THEN [out |-> Throw("VaultSign", r.cause), calls |-> CallsFailing(<<"write sign">>)]
    ELSE [out |-> Ok(r.signature),
          calls |-> IF f = 1 THEN << Call("write sign", FALSE), Call("write sign", TRUE) >>
                    ELSE Calls(<<"write sign">>)]

\* The body of sign after its initialize().
VSignBody(vk, label, payload, f) ==
    LET base64Payload == Base64(Utf8(payload))
        r == TransitSign(vk, label, base64Payload) IN
    IF f = 1
    THEN [out |-> Throw("VaultSign", "network"), calls |-> CallsFailing(<<"write sign">>)]
    ELSE IF ~r.ok
         THEN [out |-> Throw("VaultSign", r.cause),
               calls |-> CallsFailing(<<"write sign">>)]
    ELSE [out |-> Ok(r.signature), calls |-> Calls(<<"write sign">>)]

\* verify without its catch block: a failed request is thrown on.
VVerifyUncaught(vk, label, payload, signature, f) ==
    LET r == TransitVerify(vk, label, Base64(Utf8(payload)), signature) IN
    IF f = 1 THEN [out |-> Throw("VaultVerify", "network"),
                   calls |-> CallsFailing(<<"write verify">>)]
    ELSE IF ~r.ok THEN [out |-> Throw("VaultVerify", r.cause),
                        calls |-> CallsFailing(<<"write verify">>)]
    ELSE [out |-> Ok(r.valid = TRUE), calls |-> Calls(<<"write verify">>)]

\* The body of verify after its initialize().
VVerifyBody(vk, label, payload, signature, f) ==
    LET base64Payload == Base64(Utf8(payload))
        r == TransitVerify(vk, label, base64Payload, signature) IN
    IF f = 1 \/ ~r.ok
    THEN [out |-> Ok(FALSE), calls |-> CallsFailing(<<"write verify">>)]
    ELSE [out |-> Ok(r.valid = TRUE), calls |-> Calls(<<"write verify">>)]

\* deleteKeyPair that stops after the config write.
VDeleteConfigOnly(vk, label, f) ==
    IF f = 1 \/ vk[label] = NoKey
    THEN [vk |-> vk, out |-> Throw("VaultDelete", "network"),
          calls |-> CallsFailing(<<"write config">>)]
    ELSE [vk |-> [vk EXCEPT ![label].deletable = TRUE], out |-> Ok(NULL),
          calls |-> Calls(<<"write config">>)]

\* deleteKeyPair that sends the delete whatever became of the config write.
VDeleteRegardless(vk, label, f) ==
    IF vk[label] = NoKey \/ f # 0
    THEN [vk |-> vk, out |-> Throw("VaultDelete", "network"),
          calls |-> << Call("write config", FALSE), Call("delete", FALSE) >>]
    ELSE [vk |-> [vk EXCEPT ![label] = NoKey], out |-> Ok(NULL),
          calls |-> Calls(<<"write config", "delete">>)]

\* The body of deleteKeyPair after its initialize().
VDeleteBody(vk, label, f) ==
    IF f = 1
    THEN [vk |-> vk, out |-> Throw("VaultDelete", "network"),
          calls |-> CallsFailing(<<"write config">>)]
    ELSE IF vk[label] = NoKey
         THEN [vk |-> vk, out |-> Throw("VaultDelete", "no existing key"),
               calls |-> CallsFailing(<<"write config">>)]
    ELSE LET vk1 == [vk EXCEPT ![label].deletable = TRUE] IN
         IF f = 2
         THEN [vk |-> vk1, out |-> Throw("VaultDelete", "network"),
               calls |-> CallsFailing(<<"write config", "delete">>)]
         ELSE [vk |-> [vk1 EXCEPT ![label] = NoKey], out |-> Ok(NULL),
               calls |-> Calls(<<"write config", "delete">>)]

\* close() that leaves the adapter as it is.
VCloseKept(h) == h

\* close()
VClose(h) == [h EXCEPT !.initialized = FALSE]

(* ------------------------------ the caller ---------------------------- *)

\* Of a listing of the driver, what a lookup takes: its first item, if any.
FirstListed(keys) == IF keys = <<>> THEN <<>> ELSE << keys[1] >>

\* The record of a call on instance i: its arguments, whether the adapter
\* was initialized when the call began, for a close() where in its life the
\* adapter was, the outcome and the requests made; `found` is the first item
\* of the listing the driver gave the key lookup of a local sign, verify or
\* getPublicKey.
CallRec(i, op, label, payload, sig, alg, out, calls) ==
    [inst |-> i, op |-> op, label |-> label, payload |-> payload, sig |-> sig,
     alg |-> alg, pre |-> hsm[i].initialized,
     was |-> IF op = "close" THEN life[i] ELSE NULL,
     found |-> <<>>, out |-> out, calls |-> calls]

LifeAfter(i, h) ==
    IF hsm[i].initialized THEN life[i]
    ELSE IF h.initialized THEN "ready" ELSE "failed"

\* What the environment may do to an initialize(): the driver call that
\* throws and the slots reported.
PkcsInitChoices(h) ==
    IF h.initialized THEN { << "none", <<>> >> }
    ELSE { << f, <<>> >> : f \in {"require", "load", "initialize", "getSlots"} }
         \cup { << f, s >> : f \in {"none", "open", "login"}, s \in SlotLists }

VaultInitChoices(h) == IF h.initialized THEN {"none"} ELSE {"none", "health"}

\* The key material the driver or the service generates next: never that of
\* a key that exists or of the signature the caller holds.
FreshPair(used) ==
    LET free == PairIds \ (used \cup {held.key}) IN
    IF free = {} THEN 0 ELSE Min(free)

FreshKey ==
    Min(KeyIds \ ({vkeys[l].kid : l \in Labels} \cup {held.key}))

\* The signature strings a caller passes to the local adapter's verify: the
\* one it holds, and that one behind a character that is no hex digit.
PkcsSignatures ==
    IF held = NoSig THEN { << "z", "z" >> }
    ELSE { held.sig, << "z" >> \o held.sig }

\* ... and to the remote adapter's verify: the one it holds, and its body
\* with the <engine tag>:<version tag>: prefix stripped.
VaultSignatures ==
    IF held = NoSig THEN { << Text("zz") >> }
    ELSE { held.sig, << held.sig[3] >> }

(* ---- VigilHSMPKCS11 ---- *)

PkcsInitialize(i) ==
    /\ last.op = "idle" /\ hsm[i].type = "softhsm"
    /\ \E c \in PkcsInitChoices(hsm[i]) :
         LET r == PInitialize(hsm[i], lib, c[1], c[2]) IN
         /\ hsm' = [hsm EXCEPT ![i] = r.h]
         /\ lib' = r.l
         /\ life' = [life EXCEPT ![i] = LifeAfter(i, r.h)]
         /\ last' = CallRec(i, "initialize", NULL, <<>>, <<>>, NULL, r.out, r.calls)
    /\ UNCHANGED << token, vkeys, held, pending >>

IsInitialized(i) ==
    /\ last.op = "idle" /\ hsm[i].type # "none"
    /\ last' = CallRec(i, "isInitialized", NULL, <<>>, <<>>, NULL,
                       Ok(hsm[i].initialized), <<>>)
    /\ UNCHANGED << hsm, life, lib, token, vkeys, held, pending >>

PkcsGenerateKeyPair(i) ==
    /\ last.op = "idle" /\ hsm[i].type = "softhsm"
    /\ \E c \in PkcsInitChoices(hsm[i]) :
         LET r0 == PInitialize(hsm[i], lib, c[1], c[2]) IN
         /\ hsm' = [hsm EXCEPT ![i] = r0.h]
         /\ lib' = r0.l
         /\ life' = [life EXCEPT ![i] = LifeAfter(i, r0.h)]
         /\ IF r0.out.st = "throw"
            THEN /\ token' = token
                 /\ last' = CallRec(i, "generateKeyPair", NULL, <<>>, <<>>, NULL,
                                    r0.out, r0.calls)
            ELSE \E label \in Labels, alg \in PkcsAlgorithms, f \in 0..2 :
                   LET r == PGenerateBody(r0.h, r0.l, token, label,
                                          FreshPair(LivePairs(token)), f) IN
                   /\ token' = r.t
                   /\ last' = CallRec(i, "generateKeyPair", label, <<>>, <<>>, alg,
                                      r.out, r0.calls \o r.calls)
    /\ UNCHANGED << vkeys, held, pending >>

PkcsSign(i) ==
    /\ last.op = "idle" /\ hsm[i].type = "softhsm"
    /\ \E c \in PkcsInitChoices(hsm[i]) :
         LET r0 == PInitialize(hsm[i], lib, c[1], c[2]) IN
         /\ hsm' = [hsm EXCEPT ![i] = r0.h]
         /\ lib' = r0.l
         /\ life' = [life EXCEPT ![i] = LifeAfter(i, r0.h)]
         /\ IF r0.out.st = "throw"
            THEN /\ held' = held
                 /\ last' = CallRec(i, "sign", NULL, <<>>, <<>>, NULL,
                                    r0.out, r0.calls)
            ELSE \E label \in Labels, payload \in Signed, f \in 0..2 :
                 \E keys \in Find(token.priv, label) :
                   LET r == PSignBody(r0.h, r0.l, keys, payload, f) IN
                   /\ held' = IF r.out.st = "ok"
                              THEN [label |-> label, payload |-> payload,
                                    sig |-> r.out.val, key |-> keys[1].pair]
                              ELSE held
                   /\ last' = [CallRec(i, "sign", label, payload, <<>>, NULL,
                                       r.out, r0.calls \o r.calls)
                               EXCEPT !.found = FirstListed(keys)]
    /\ UNCHANGED << token, vkeys, pending >>

PkcsVerify(i) ==
    /\ last.op = "idle" /\ hsm[i].type = "softhsm"
    /\ \E c \in PkcsInitChoices(hsm[i]) :
         LET r0 == PInitialize(hsm[i], lib, c[1], c[2]) IN
         /\ hsm' = [hsm EXCEPT ![i] = r0.h]
         /\ lib' = r0.l
         /\ life' = [life EXCEPT ![i] = LifeAfter(i, r0.h)]
         /\ IF r0.out.st = "throw"
            THEN last' = CallRec(i, "verify", NULL, <<>>, <<>>, NULL,
                                    r0.out, r0.calls)
            ELSE \E label \in Labels, payload \in Payloads,
                    signature \in PkcsSignatures, f \in 0..2 :
                 \E keys \in Find(token.pub, label) :
                   LET r == PVerifyBody(r0.h, r0.l, keys, payload, signature, f) IN
                   last' = [CallRec(i, "verify", label, payload, signature, NULL,
                                    r.out, r0.calls \o r.calls)
                            EXCEPT !.found = FirstListed(keys)]
    /\ UNCHANGED << token, vkeys, held, pending >>

PkcsGetPublicKey(i) ==
    /\ last.op = "idle" /\ hsm[i].type = "softhsm"
    /\ \E c \in PkcsInitChoices(hsm[i]) :
         LET r0 == PInitialize(hsm[i], lib, c[1], c[2]) IN
         /\ hsm' = [hsm EXCEPT ![i] = r0.h]
         /\ lib' = r0.l
         /\ life' = [life EXCEPT ![i] = LifeAfter(i, r0.h)]
         /\ IF r0.out.st = "throw"
            THEN last' = CallRec(i, "getPublicKey", NULL, <<>>, <<>>, NULL,
                                 r0.out, r0.calls)
            ELSE \E label \in Labels, f \in 0..2 :
                 \E keys \in Find(token.pub, label) :
                   LET r == PGetPublicKeyBody(r0.h, r0.l, keys, f) IN
                   last' = [CallRec(i, "getPublicKey", label, <<>>, <<>>, NULL,
                                    r.out, r0.calls \o r.calls)
                            EXCEPT !.found = FirstListed(keys)]
    /\ UNCHANGED << token, vkeys, held, pending >>

PkcsDeleteKeyPair(i) ==
    /\ last.op = "idle" /\ hsm[i].type = "softhsm"
    /\ \E c \in PkcsInitChoices(hsm[i]) :
         LET r0 == PInitialize(hsm[i], lib, c[1], c[2]) IN
         /\ hsm' = [hsm EXCEPT ![i] = r0.h]
         /\ lib' = r0.l
         /\ life' = [life EXCEPT ![i] = LifeAfter(i, r0.h)]
         /\ IF r0.out.st = "throw"
            THEN /\ token' = token
                 /\ last' = CallRec(i, "deleteKeyPair", NULL, <<>>, <<>>, NULL,
                                    r0.out, r0.calls)
            ELSE \E label \in Labels :
                 \E privs \in Find(token.priv, label),
                    pubs \in Find(token.pub, label),
                    f \in 0..(2 + Cardinality(Matching(token.priv, label))
                             + Cardinality(Matching(token.pub, label))) :
                   LET r == PDeleteBody(r0.h, r0.l, token, privs, pubs, f) IN
                   /\ token' = r.t
                   /\ last' = CallRec(i, "deleteKeyPair", label, <<>>, <<>>, NULL,
                                      r.out, r0.calls \o r.calls)
    /\ UNCHANGED << vkeys, held, pending >>

PkcsClose(i) ==
    /\ last.op = "idle" /\ hsm[i].type = "softhsm"
    /\ \E fails \in SUBSET {"logout", "close", "finalize"} :
         LET r == PClose(hsm[i], lib, fails) IN
         /\ hsm' = [hsm EXCEPT ![i] = r.h]
         /\ lib' = r.l
         /\ last' = CallRec(i, "close", NULL, <<>>, <<>>, NULL, r.out, r.calls)
    /\ life' = [life EXCEPT ![i] = "closed"]
    /\ UNCHANGED << token, vkeys, held, pending >>

(* ---- VigilHSMVault ---- *)

VaultInitialize(i) ==
    /\ last.op = "idle" /\ hsm[i].type = "vault"
    /\ \E c \in VaultInitChoices(hsm[i]) :
         LET r == VInitialize(hsm[i], c) IN
         /\ hsm' = [hsm EXCEPT ![i] = r.h]
         /\ life' = [life EXCEPT ![i] = LifeAfter(i, r.h)]
         /\ last' = CallRec(i, "initialize", NULL, <<>>, <<>>, NULL, r.out, r.calls)
    /\ UNCHANGED << lib, token, vkeys, held, pending >>

VaultGenerateKeyPair(i) ==
    /\ last.op = "idle" /\ hsm[i].type = "vault"
    /\ \E c \in VaultInitChoices(hsm[i]) :
         LET r0 == VInitialize(hsm[i], c) IN
         /\ hsm' = [hsm EXCEPT ![i] = r0.h]
         /\ life' = [life EXCEPT ![i] = LifeAfter(i, r0.h)]
         /\ IF r0.out.st = "throw"
            THEN /\ vkeys' = vkeys
                 /\ last' = CallRec(i, "generateKeyPair", NULL, <<>>, <<>>, NULL,
                                    r0.out, r0.calls)
            ELSE \E label \in Labels, alg \in Algorithms, f \in 0..2 :
                   LET r == VGenerateBody(vkeys, label, alg, FreshKey, f) IN
                   /\ vkeys' = r.vk
                   /\ last' = CallRec(i, "generateKeyPair", label, <<>>, <<>>, alg,
                                      r.out, r0.calls \o r.calls)
    /\ UNCHANGED << lib, token, held, pending >>

VaultSign(i) ==
    /\ last.op = "idle" /\ hsm[i].type = "vault"
    /\ \E c \in VaultInitChoices(hsm[i]) :
         LET r0 == VInitialize(hsm[i], c) IN
         /\ hsm' = [hsm EXCEPT ![i] = r0.h]
         /\ life' = [life EXCEPT ![i] = LifeAfter(i, r0.h)]
         /\ IF r0.out.st = "throw"
            THEN /\ held' = held
                 /\ last' = CallRec(i, "sign", NULL, <<>>, <<>>, NULL,
                                    r0.out, r0.calls)
            ELSE \E label \in Labels, payload \in Signed, f \in 0..1 :
                   LET r == VSignBody(vkeys, label, payload, f) IN
                   /\ held' = IF r.out.st = "ok"
                              THEN [label |-> label, payload |-> payload,
                                    sig |-> r.out.val, key |-> vkeys[label].kid]
                              ELSE held
                   /\ last' = CallRec(i, "sign", label, payload, <<>>, NULL,
                                      r.out, r0.calls \o r.calls)
    /\ UNCHANGED << lib, token, vkeys, pending >>

VaultVerify(i) ==
    /\ last.op = "idle" /\ hsm[i].type = "vault"
    /\ \E c \in VaultInitChoices(hsm[i]) :
         LET r0 == VInitialize(hsm[i], c) IN
         /\ hsm' = [hsm EXCEPT ![i] = r0.h]
         /\ life' = [life EXCEPT ![i] = LifeAfter(i, r0.h)]
         /\ IF r0.out.st = "throw"
            THEN last' = CallRec(i, "verify", NULL, <<>>, <<>>, NULL,
                                    r0.out, r0.calls)
            ELSE \E label \in Labels, payload \in Payloads,
                    signature \in VaultSignatures, f \in 0..1 :
                   LET r == VVerifyBody(vkeys, label, payload, signature, f) IN
                   last' = CallRec(i, "verify", label, payload, signature, NULL,
                                   r.out, r0.calls \o r.calls)
    /\ UNCHANGED << lib, token, vkeys, held, pending >>

VaultDeleteKeyPair(i) ==
    /\ last.op = "idle" /\ hsm[i].type = "vault"
    /\ \E c \in VaultInitChoices(hsm[i]) :
         LET r0 == VInitialize(hsm[i], c) IN
         /\ hsm' = [hsm EXCEPT ![i] = r0.h]
         /\ life' = [life EXCEPT ![i] = LifeAfter(i, r0.h)]
         /\ IF r0.out.st = "throw"
            THEN /\ vkeys' = vkeys
                 /\ last' = CallRec(i, "deleteKeyPair", NULL, <<>>, <<>>, NULL,
                                    r0.out, r0.calls)
            ELSE \E label \in Labels, f \in 0..2 :
                   LET r == VDeleteBody(vkeys, label, f) IN
                   /\ vkeys' = r.vk
                   /\ last' = CallRec(i, "deleteKeyPair", label, <<>>, <<>>, NULL,
                                      r.out, r0.calls \o r.calls)
    /\ UNCHANGED << lib, token, held, pending >>

VaultClose(i) ==
    /\ last.op = "idle" /\ hsm[i].type = "vault"
    /\ hsm' = [hsm EXCEPT ![i] = VClose(hsm[i])]
    /\ life' = [life EXCEPT ![i] = "closed"]
    /\ last' = CallRec(i, "close", NULL, <<>>, <<>>, NULL, Ok(NULL), <<>>)
    /\ UNCHANGED << lib, token, vkeys, held, pending >>

\* The awaited call settles and the caller goes on to its next call.
Return ==
    /\ last.op # "idle"
    /\ last' = [Idle EXCEPT !.after = IF last.op = "sign" /\ last.out.st = "ok"
                                       THEN "sign" ELSE "other"]
    /\ UNCHANGED << hsm, life, lib, token, vkeys, held, pending >>

(* --------------------------- specification ---------------------------- *)

\* One adapter, of either kind, as getHSM constructs it; an empty token and
\* an empty transit engine.
Init ==
    /\ \E type \in {"softhsm", "vault"} :
         hsm = [i \in Inst |-> IF i = 1 THEN getHSM(type) ELSE NoAdapter]
    /\ life = [i \in Inst |-> "new"]
    /\ lib = [initialized |-> FALSE, open |-> {}, login |-> FALSE]
    /\ token = [priv |-> {}, pub |-> {}]
    /\ vkeys = [l \in Labels |-> NoKey]
    /\ held = NoSig
    /\ last = Idle
    /\ pending = {}

Next ==
    \/ \E i \in Inst : PkcsInitialize(i)
    \/ \E i \in Inst : IsInitialized(i)
    \/ \E i \in Inst : PkcsGenerateKeyPair(i)
    \/ \E i \in Inst : PkcsSign(i)
    \/ \E i \in Inst : PkcsVerify(i)
    \/ \E i \in Inst : PkcsGetPublicKey(i)
    \/ \E i \in Inst : PkcsDeleteKeyPair(i)
    \/ \E i \in Inst : PkcsClose(i)
    \/ \E i \in Inst : VaultInitialize(i)
    \/ \E i \in Inst : VaultGenerateKeyPair(i)
    \/ \E i \in Inst : VaultSign(i)
    \/ \E i \in Inst : VaultVerify(i)
    \/ \E i \in Inst : VaultDeleteKeyPair(i)
    \/ \E i \in Inst : VaultClose(i)
    \/ Return

Spec == Init /\ [][Next]_vars

\* Two adapters constructed in one process, of the same or of different
\* backends, called in any interleaving on backends that hold no key: their
\* initialize, isInitialized, sign and close.
InitTwo ==
    /\ \E types \in { << "softhsm", "softhsm" >>, << "softhsm", "vault" >>,
                       << "vault", "vault" >> } :
         hsm = [i \in Inst |-> getHSM(types[i])]
    /\ life = [i \in Inst |-> "new"]
    /\ lib = [initialized |-> FALSE, open |-> {}, login |-> FALSE]
    /\ token = [priv |-> {}, pub |-> {}]
    /\ vkeys = [l \in Labels |-> NoKey]
    /\ held = NoSig
    /\ last = Idle
    /\ pending = {}

NextTwo ==
    \/ \E i \in Inst : PkcsInitialize(i)
    \/ \E i \in Inst : IsInitialized(i)
    \/ \E i \in Inst : PkcsSign(i)
    \/ \E i \in Inst : PkcsClose(i)
    \/ \E i \in Inst : VaultInitialize(i)
    \/ \E i \in Inst : VaultSign(i)
    \/ \E i \in Inst : VaultClose(i)
    \/ Return

SpecTwo == InitTwo /\ [][NextTwo]_vars

\* The configurations of slot resolution: a token label or none (NULL), a
\* slot index or none (-1).
SlotConfigs ==
    {[tokenLabel |-> t, slot |-> n] : t \in {NULL, "vigil-token"}, n \in {-1, 0, 1, 2}}

\* The slots with a token present that getSlots(true) may report, from none
\* to two, the configured label on neither, either or both.
SlotListsWide ==
    { <<>>, << Padded("other") >>, << Padded("vigil-token") >>,
      << Padded("other"), Padded("vigil-token") >>,
      << Padded("vigil-token"), Padded("other") >>,
      << Padded("vigil-token"), Padded("vigil-token") >> }

\* initialize() of the local adapter under any of these slot reports; the
\* call's record also has the slots reported and the slot resolved (0: none,
\* or the report was not reached).
SlotInitialize(i) ==
    /\ last.op = "idle" /\ hsm[i].type = "softhsm"
    /\ \E f \in {"none", "getSlots", "open", "login"}, slots \in SlotListsWide :
         LET r == PInitialize(hsm[i], lib, f, slots)
             reached == Answered(r.calls, "getSlots") IN
         /\ hsm' = [hsm EXCEPT ![i] = r.h]
         /\ lib' = r.l
         /\ life' = [life EXCEPT ![i] = LifeAfter(i, r.h)]
         /\ last' = CallRec(i, "initialize", NULL, <<>>, <<>>, NULL, r.out, r.calls)
                    @@ [slots |-> IF reached THEN slots ELSE <<>>,
                        slot |-> IF reached THEN ResolveSlot(hsm[i].cfg, slots).slot
                                 ELSE 0]
    /\ UNCHANGED << token, vkeys, held, pending >>

InitSlot ==
    /\ \E cfg \in SlotConfigs :
         hsm = [i \in Inst |-> IF i = 1 THEN [getHSM("softhsm") EXCEPT !.cfg = cfg]
                               ELSE NoAdapter]
    /\ life = [i \in Inst |-> "new"]
    /\ lib = [initialized |-> FALSE, open |-> {}, login |-> FALSE]
    /\ token = [priv |-> {}, pub |-> {}]
    /\ vkeys = [l \in Labels |-> NoKey]
    /\ held = NoSig
    /\ last = Idle
    /\ pending = {}

NextSlot ==
    \/ \E i \in Inst : SlotInitialize(i)
    \/ \E i \in Inst : PkcsClose(i)
    \/ Return

SpecSlot == InitSlot /\ [][NextSlot]_vars

\* The repository holds the remote adapter class twice: with the algorithm
\* argument and the switch on it, and, in the file the callers import it
\* from ('./VigilHSMVault'), without them.
VaultSources == {"IVigilHSM.ts", "VigilHSMVault.ts"}

\* The body of generateKeyPair(keyLabel) of VigilHSMVault.ts: the key type is
\* 'ed25519' whatever the caller passes.
VGenerateBodyEd(vk, label, kid, f) == VGenerateBody(vk, label, "ed25519", kid, f)

\* The `type` of the key-creation request a generateKeyPair sends.
RequestedType(source, algorithm) ==
    IF source = "VigilHSMVault.ts" THEN "ed25519" ELSE VaultType(algorithm)

\* generateKeyPair of the remote adapter of either source; the call's record
\* also has the type of the key-creation request, "" when none was sent.
VaultGenerateKeyPairOf(i) ==
    /\ last.op = "idle" /\ hsm[i].type = "vault"
    /\ \E c \in VaultInitChoices(hsm[i]) :
         LET r0 == VInitialize(hsm[i], c) IN
         /\ hsm' = [hsm EXCEPT ![i] = r0.h]
         /\ life' = [life EXCEPT ![i] = LifeAfter(i, r0.h)]
         /\ IF r0.out.st = "throw"
            THEN /\ vkeys' = vkeys
                 /\ last' = CallRec(i, "generateKeyPair", NULL, <<>>, <<>>, NULL,
                                    r0.out, r0.calls)
                            @@ [type |-> ""]
            ELSE \E label \in Labels, alg \in Algorithms, f \in 0..2 :
                   LET r == IF hsm[i].cfg = "VigilHSMVault.ts"
                            THEN VGenerateBodyEd(vkeys, label, FreshKey, f)
                            ELSE VGenerateBody(vkeys, label, alg, FreshKey, f) IN
                   /\ vkeys' = r.vk
                   /\ last' = CallRec(i, "generateKeyPair", label, <<>>, <<>>, alg,
                                      r.out, r0.calls \o r.calls)
                              @@ [type |-> IF Issued(r.calls, "write keys") = 0 THEN ""
                                           ELSE RequestedType(hsm[i].cfg, alg)]
    /\ UNCHANGED << lib, token, held, pending >>

InitVault ==
    /\ \E source \in VaultSources :
         hsm = [i \in Inst |-> IF i = 1 THEN [getHSM("vault") EXCEPT !.cfg = source]
                               ELSE NoAdapter]
    /\ life = [i \in Inst |-> "new"]
    /\ lib = [initialized |-> FALSE, open |-> {}, login |-> FALSE]
    /\ token = [priv |-> {}, pub |-> {}]
    /\ vkeys = [l \in Labels |-> NoKey]
    /\ held = NoSig
    /\ last = Idle
    /\ pending = {}

NextVault ==
    \/ \E i \in Inst : VaultInitialize(i)
    \/ \E i \in Inst : VaultGenerateKeyPairOf(i)
    \/ \E i \in Inst : VaultDeleteKeyPair(i)
    \/ \E i \in Inst : VaultClose(i)
    \/ Return

SpecVault == InitVault /\ [][NextVault]_vars

\* The names of a key's versions in the metadata transit/keys/<name> returns:
\* decimal numerals, here the sequences of their digits.
VersionNames == { <<1>>, <<2>>, <<9>>, <<1, 0>>, <<1, 1>>, <<2, 0>> }

\* Number(name) of a decimal numeral.
RECURSIVE Number(_)
Number(name) ==
    IF name = <<>> THEN 0
    ELSE 10 * Number(SubSeq(name, 1, Len(name) - 1)) + name[Len(name)]

\* -Infinity, below every number of a version.
NegInfinity == -1

\* The property name a number is looked up under: its decimal numeral, and
\* for -Infinity a text that is no numeral.
RECURSIVE NumberToString(_)
NumberToString(n) ==
    IF n = NegInfinity THEN << NegInfinity >>
    ELSE IF n < 10 THEN << n >> ELSE NumberToString(n \div 10) \o << n % 10 >>

\* Math.max(...numbers): -Infinity for no argument.
MathMax(numbers) ==
    IF numbers = {} THEN NegInfinity
    ELSE CHOOSE m \in numbers : \A n \in numbers : n <= m

\* The `keys` of the metadata of key material kid with the versions names.
KeyVersions(kid, names) ==
    [v \in names |-> [public_key |-> << 75, 48 + kid >> \o [k \in 1..Len(v) |-> 48 + v[k]]]]

\* The order of two numerals as strings.
RECURSIVE TextLeq(_, _)
TextLeq(a, b) ==
    IF a = <<>> THEN TRUE
    ELSE IF b = <<>> THEN FALSE
    ELSE IF Head(a) # Head(b) THEN Head(a) < Head(b)
    ELSE TextLeq(Tail(a), Tail(b))

\* The version chosen as the last of the names in string order.
LatestVersionText(keys) ==
    IF DOMAIN keys = {} THEN << NegInfinity >>
    ELSE CHOOSE v \in DOMAIN keys : \A w \in DOMAIN keys : TextLeq(w, v)

\* latestVersion, as the property name keys[latestVersion] reads.
LatestVersion(keys) == NumberToString(MathMax({ Number(v) : v \in DOMAIN keys }))

\* The rest of generateKeyPair's try block once the metadata is read:
\* keys[latestVersion].public_key throws a TypeError when there is no such
\* property, which the catch rethrows.
VReadBack(keys) ==
    LET latest == LatestVersion(keys) IN
    IF latest \notin DOMAIN keys
    THEN Throw("VaultGenerate", "TypeError")
    ELSE Ok([publicKey |-> HexEncode(Utf8(keys[latest].public_key))])

\* generateKeyPair against a service whose metadata for the key lists the
\* versions names; the call's record also has the metadata it read.
VaultGenerateKeyPairRead(i) ==
    /\ last.op = "idle" /\ hsm[i].type = "vault"
    /\ \E c \in VaultInitChoices(hsm[i]) :
         LET r0 == VInitialize(hsm[i], c) IN
         /\ hsm' = [hsm EXCEPT ![i] = r0.h]
         /\ life' = [life EXCEPT ![i] = LifeAfter(i, r0.h)]
         /\ IF r0.out.st = "throw"
            THEN /\ vkeys' = vkeys
                 /\ last' = CallRec(i, "generateKeyPair", NULL, <<>>, <<>>, NULL,
                                    r0.out, r0.calls)
                            @@ [keys |-> << >>]
            ELSE \E label \in Labels, alg \in Algorithms, f \in 0..2,
                    names \in SUBSET VersionNames :
                   LET r == VGenerateBody(vkeys, label, alg, FreshKey, f)
                       keys == KeyVersions(r.vk[label].kid, names) IN
                   /\ vkeys' = r.vk
                   /\ last' = CallRec(i, "generateKeyPair", label, <<>>, <<>>, alg,
                                      IF Answered(r.calls, "read keys")
                                      THEN VReadBack(keys) ELSE r.out,
                                      r0.calls \o r.calls)
                              @@ [keys |-> IF Answered(r.calls, "read keys")
                                           THEN keys ELSE << >>]
    /\ UNCHANGED << lib, token, held, pending >>

InitVersions ==
    /\ hsm = [i \in Inst |-> IF i = 1 THEN getHSM("vault") ELSE NoAdapter]
    /\ life = [i \in Inst |-> "new"]
    /\ lib = [initialized |-> FALSE, open |-> {}, login |-> FALSE]
    /\ token = [priv |-> {}, pub |-> {}]
    /\ vkeys = [l \in Labels |-> NoKey]
    /\ held = NoSig
    /\ last = Idle
    /\ pending = {}

NextVersions ==
    \/ \E i \in Inst : VaultInitialize(i)
    \/ \E i \in Inst : VaultGenerateKeyPairRead(i)
    \/ \E i \in Inst : VaultClose(i)
    \/ Return

SpecVersions == InitVersions /\ [][NextVersions]_vars

\* How many calls the caller leaves unawaited at a time.
MaxPending == 2

\* The next statement of a call after its initialize(): an explicit
\* initialize() returns, sign goes on to its request.
AfterInitialize(i, c, calls) ==
    IF c.op = "initialize"
    THEN /\ pending' = pending \ {c}
         /\ last' = CallRec(i, "initialize", NULL, <<>>, <<>>, NULL, Ok(NULL), calls)
    ELSE /\ pending' = (pending \ {c})
                           \cup {[c EXCEPT !.at = "write sign", !.calls = calls]}
         /\ last' = last

\* The caller starts initialize() or sign() on a remote adapter and does not
\* await it: the call runs to its first await.  initialize() returns at once
\* when the adapter is initialized, else it sends the liveness check.
VaultStart(i) ==
    /\ last.op = "idle" /\ hsm[i].type = "vault"
    /\ Cardinality(pending) < MaxPending
    /\ \E op \in {"initialize", "sign"}, label \in Labels :
         LET c == [inst |-> i, op |-> op,
                   label |-> IF op = "sign" THEN label ELSE NULL,
                   id |-> Min((1..MaxPending) \ { q.id : q \in pending }),
                   at |-> "health", calls |-> <<>>] IN
         IF hsm[i].initialized
         THEN AfterInitialize(i, c, <<>>)
         ELSE pending' = pending \cup {c} /\ last' = last
    /\ life' = [life EXCEPT ![i] = IF @ = "closed" THEN "new" ELSE @]
    /\ UNCHANGED << hsm, lib, token, vkeys, held >>

\* The liveness check of a suspended initialize() is answered: the call sets
\* initialized and goes on, or throws.
VaultHealthAnswered(i) ==
    /\ last.op = "idle"
    /\ \E c \in pending, ok \in BOOLEAN :
         /\ c.inst = i /\ c.at = "health"
         /\ IF ok
            THEN /\ hsm' = [hsm EXCEPT ![i].initialized = TRUE]
                 /\ AfterInitialize(i, c, Calls(<<"health">>))
            ELSE /\ hsm' = hsm
                 /\ pending' = pending \ {c}
                 /\ last' = CallRec(i, c.op, NULL, <<>>, <<>>, NULL,
                                    Throw("VaultInitialize", "network"),
                                    CallsFailing(<<"health">>))
    /\ UNCHANGED << life, lib, token, vkeys, held >>

\* The request of a suspended sign is answered, and the call returns.
VaultSignAnswered(i) ==
    /\ last.op = "idle"
    /\ \E c \in pending, payload \in Signed, f \in 0..1 :
         /\ c.inst = i /\ c.at = "write sign"
         /\ LET r == VSignBody(vkeys, c.label, payload, f) IN
            /\ held' = IF r.out.st = "ok"
                       THEN [label |-> c.label, payload |-> payload,
                             sig |-> r.out.val, key |-> vkeys[c.label].kid]
                       ELSE held
            /\ last' = CallRec(i, "sign", c.label, payload, <<>>, NULL,
                               r.out, c.calls \o r.calls)
         /\ pending' = pending \ {c}
    /\ UNCHANGED << hsm, life, lib, token, vkeys >>

\* close(), which has no await: the caller may call it while other calls
\* are suspended.
VaultCloseNow(i) ==
    /\ last.op = "idle" /\ hsm[i].type = "vault"
    /\ hsm' = [hsm EXCEPT ![i] = VClose(hsm[i])]
    /\ life' = [life EXCEPT ![i] = "closed"]
    /\ last' = CallRec(i, "close", NULL, <<>>, <<>>, NULL, Ok(NULL), <<>>)
    /\ UNCHANGED << lib, token, vkeys, held, pending >>

\* A remote adapter and a service that has a key under the first label.
InitAsync ==
    /\ hsm = [i \in Inst |-> IF i = 1 THEN getHSM("vault") ELSE NoAdapter]
    /\ life = [i \in Inst |-> "new"]
    /\ lib = [initialized |-> FALSE, open |-> {}, login |-> FALSE]
    /\ token = [priv |-> {}, pub |-> {}]
    /\ vkeys = [l \in Labels |-> IF l = "k1" THEN [kid |-> 1, deletable |-> FALSE]
                                 ELSE NoKey]
    /\ held = NoSig
    /\ last = Idle
    /\ pending = {}

NextAsync ==
    \/ \E i \in Inst : VaultStart(i)
    \/ \E i \in Inst : VaultHealthAnswered(i)
    \/ \E i \in Inst : VaultSignAnswered(i)
    \/ \E i \in Inst : VaultCloseNow(i)
    \/ \E i \in Inst : IsInitialized(i)
    \/ Return

SpecAsync == InitAsync /\ [][NextAsync]_vars

(* ------------------------------ properties ---------------------------- *)

\* The call just answered is `op` on an adapter of the given kind ...
Did(type, op) == last.op = op /\ hsm[last.inst].type = type

\* ... and its implicit initialize() did not throw, so that its body ran.
Ran(type, op) == Did(type, op) /\ last.label \in Labels

\* Every request the call made was answered.
Served == \A k \in 1..Len(last.calls) : last.calls[k].ok

Returned(v) == last.out.st = "ok" /\ last.out.val = v

\* The call is a verify of the signature the caller holds, with the label and
\* the payload it was made for.
VerifiesOwn ==
    /\ last.op = "verify" /\ last.label \in Labels
    /\ last.label = held.label /\ last.payload = held.payload /\ last.sig = held.sig

\* The key that made the held signature is still there, both halves.
HeldKeyWhole ==
    IF hsm[last.inst].type = "softhsm"
    THEN /\ PrivateTemplate(held.label, held.key) \in token.priv
         /\ PublicTemplate(held.label, held.key) \in token.pub
    ELSE vkeys[held.label].kid = held.key

\* C1: on either adapter, a verify(label, p, s) of the signature s that
\* sign(label, p) returned, made while the key pair that signed is still under
\* the label and with every request answered, returns true.
C1_RoundTrip == (VerifiesOwn /\ HeldKeyWhole /\ Served) => Returned(TRUE)

\* The requests that establish the connection or session.
Establishment == {"load", "initialize", "open", "login", "health"}

EstablishedOnce ==
    IF hsm[last.inst].type = "softhsm"
    THEN \A c \in {"load", "initialize", "open", "login"} : Issued(last.calls, c) = 1
    ELSE Issued(last.calls, "health") = 1

\* C2: on either adapter, a call other than close() that begins on an
\* initialized adapter (an explicit initialize() or the implicit one of a key
\* operation) issues no establishment request and leaves the adapter
\* initialized; the call that makes the adapter initialized issues each
\* establishment request exactly once.
C2_InitializeIdempotent ==
    (last.op \notin {"idle", "close"}) =>
        /\ last.pre => /\ \A c \in Establishment : Issued(last.calls, c) = 0
                       /\ hsm[last.inst].initialized
        /\ (~last.pre /\ hsm[last.inst].initialized) => EstablishedOnce

\* An explicit initialize() on an initialized local adapter, answered.
C2_Witness ==
    /\ Did("softhsm", "initialize") /\ last.pre
    /\ last.out = Ok(NULL) /\ last.calls = <<>>

\* The signature decodes to bytes that are no signature of any public key
\* under the label.
WrongForAll(label, payload, signature) ==
    \A o \in Matching(token.pub, label) :
        HexDecode(signature) # RsaSign(o.pair, Utf8(payload))

\* C3: on the local adapter a verify whose key lookup the driver answered
\* raises the not-found error when no public key has the label, and when one
\* has it returns a boolean, false whenever the signature is wrong, is
\* malformed or makes the driver's verify throw.
C3_LocalVerifyKinds ==
    (Ran("softhsm", "verify") /\ Answered(last.calls, "find")) =>
        IF Matching(token.pub, last.label) = {}
        THEN last.out = Throw("NotFound", "PublicKey")
        ELSE /\ last.out.st = "ok" /\ last.out.val \in BOOLEAN
             /\ ( \/ WrongForAll(last.label, last.payload, last.sig)
                  \/ ~Served ) => last.out.val = FALSE

\* A verify under an existing key of a signature string that is not valid
\* hex, answered false.
C3_Witness ==
    /\ Ran("softhsm", "verify") /\ Matching(token.pub, last.label) # {}
    /\ ~IsHex(last.sig[1]) /\ Returned(FALSE)

\* C4: on the remote adapter a verify for a label under which the service
\* has no key raises an error, and under an existing key a malformed or
\* non-verifying signature gives false.
C4_RemoteVerifyKinds ==
    Ran("vault", "verify") =>
        IF vkeys[last.label] = NoKey THEN last.out.st = "throw"
        ELSE last.out.st = "ok"

\* The service's answer to the verify request of the call.
Verdict ==
    TransitVerify(vkeys, last.label, Base64(Utf8(last.payload)), last.sig)

\* C5: on an initialized remote adapter verify never raises; it returns a
\* boolean, false when the request fails in transit or the service answers
\* with an error, and true only when the service's verdict is true.
C5_RemoteVerifyNeverRaises ==
    (Did("vault", "verify") /\ last.pre) =>
        /\ last.out.st = "ok" /\ last.out.val \in BOOLEAN
        /\ ~Served => last.out.val = FALSE
        /\ last.out.val = TRUE => (Served /\ Verdict.ok /\ Verdict.valid = TRUE)

\* The held signature under its own key and payload, the request lost in
\* transit: false.
C5_Witness ==
    /\ Did("vault", "verify") /\ last.pre /\ VerifiesOwn /\ HeldKeyWhole
    /\ Verdict.ok /\ ~Served /\ Returned(FALSE)

\* The call is a verify of the signature the caller holds, under the label it
\* was made for, with another payload string.
VerifiesOther ==
    /\ last.op = "verify" /\ last.label \in Labels
    /\ last.label = held.label /\ last.sig = held.sig
    /\ last.payload # held.payload

\* The key lookup of a verify finds a key: on the local adapter the driver
\* answers the search and a public key has the label.
KeyLocated ==
    hsm[last.inst].type = "softhsm" =>
        (Answered(last.calls, "find") /\ Matching(token.pub, last.label) # {})

\* C6, as stated: on either adapter, a verify of a signature made by
\* sign(label, p) with a payload string q that differs from p, the key being
\* located, returns false.
C6_OtherPayloadFalse == (VerifiesOther /\ KeyLocated) => Returned(FALSE)

\* C6, amended: on either adapter, a verify of a signature made by
\* sign(label, p) with a payload q whose UTF-8 bytes differ from those of p
\* never returns true, and returns false when the key is located.
C6_OtherBytesFalse ==
    (VerifiesOther /\ Utf8(last.payload) # Utf8(held.payload)) =>
        /\ ~(last.out.st = "ok" /\ last.out.val = TRUE)
        /\ KeyLocated => Returned(FALSE)

\* The held signature checked against a payload of other bytes, the signing
\* key still there and every request answered: false.
C6_Witness ==
    /\ VerifiesOther /\ Utf8(last.payload) # Utf8(held.payload)
    /\ HeldKeyWhole /\ Served /\ Returned(FALSE)

\* No key that signs is under the label of the call.
NoSigningKey ==
    IF hsm[last.inst].type = "softhsm"
    THEN Matching(token.priv, last.label) = {}
    ELSE vkeys[last.label] = NoKey

\* The error raised says that the key was not found.
NotFoundError ==
    \/ last.out.err.kind = "NotFound"
    \/ last.out.err.cause = "signing key not found"

\* The error raised is that of the lookup request itself failing.
LookupFailed == last.out.err.cause \in {"find", "network"}

\* C7: on either adapter, after a deleteKeyPair(label) that returned no key
\* that signs is under the label, and a sign(label, p) made while none is
\* there raises: the not-found error, unless the lookup request itself fails.
C7_SignAfterDelete ==
    /\ (last.op = "deleteKeyPair" /\ last.label \in Labels /\ last.out.st = "ok")
           => NoSigningKey
    /\ (last.op = "sign" /\ last.label \in Labels /\ NoSigningKey)
           => (last.out.st = "throw" /\ (NotFoundError \/ LookupFailed))

\* A sign under the label of the held signature, whose key pair has since
\* been deleted, raising the not-found error.
C7_Witness ==
    /\ last.op = "sign" /\ last.label \in Labels /\ last.label = held.label
    /\ NoSigningKey
    /\ hsm[last.inst].type = "softhsm" => Matching(token.pub, last.label) = {}
    /\ last.out.st = "throw" /\ NotFoundError

\* C8: on the local adapter a deleteKeyPair(label) that returns leaves no
\* private and no public key object with the label on the token, and leaves
\* the objects of every other label as they were.
C8_DeleteRemovesAll ==
    [][ ( /\ last'.op = "deleteKeyPair" /\ last'.label \in Labels
          /\ hsm'[last'.inst].type = "softhsm" /\ last'.out.st = "ok" )
        => /\ Matching(token'.priv, last'.label) = {}
           /\ Matching(token'.pub, last'.label) = {}
           /\ \A l \in Labels \ {last'.label} :
                /\ Matching(token'.priv, l) = Matching(token.priv, l)
                /\ Matching(token'.pub, l) = Matching(token.pub, l) ]_vars

\* A deleteKeyPair that returned after destroying two private and two public
\* key objects of one label.
C8_Witness ==
    /\ Ran("softhsm", "deleteKeyPair") /\ last.out.st = "ok"
    /\ Issued(last.calls, "destroy") = 4
    /\ Matching(token.priv, last.label) = {} /\ Matching(token.pub, last.label) = {}

\* C9: on either adapter close() returns normally whatever the state it is
\* called in and whatever its teardown calls do, the adapter is not
\* initialized afterwards, and isInitialized() on a closed adapter is false.
C9_CloseNeverRaises ==
    /\ last.op = "close" => (last.out = Ok(NULL) /\ ~hsm[last.inst].initialized)
    /\ (last.op = "isInitialized" /\ life[last.inst] = "closed") => Returned(FALSE)

\* A close() on an adapter that a close() has already closed.
C9_Witness ==
    /\ last.op = "close" /\ last.was = "closed" /\ last.out = Ok(NULL)

\* C10: on the local adapter, an initialized adapter holds a session that is
\* open and logged in, and after an initialize() that raised the adapter
\* holds no session handle.
C10_NoSessionRetained ==
    /\ \A i \in Inst : (hsm[i].type = "softhsm" /\ hsm[i].initialized)
           => (hsm[i].session \in lib.open /\ lib.login)
    /\ (Did("softhsm", "initialize") /\ last.out.st = "throw")
           => hsm[last.inst].session = 0

\* The algorithms an adapter has an implementation for: the local adapter
\* generates, signs and verifies with RSA alone.
Supports(type) ==
    IF type = "softhsm" THEN {"rsa"} ELSE {"rsa", "ecdsa", "ed25519"}

\* C11: on either adapter, a generateKeyPair that names an algorithm the
\* adapter does not support raises the unsupported-algorithm error.
C11_UnsupportedRejected ==
    ( /\ last.op = "generateKeyPair" /\ last.label \in Labels
      /\ last.alg \notin Supports(hsm[last.inst].type) \cup {"omitted"} )
    => (last.out.st = "throw" /\ last.out.err.kind = "Unsupported")

\* C12: on the local backend, in every reachable state at most one private
\* key object and at most one public key object carry a label.
C12_OnePairPerLabel ==
    \A label \in Labels :
        /\ Cardinality(Matching(token.priv, label)) <= 1
        /\ Cardinality(Matching(token.pub, label)) <= 1

KeysOf(t, vk, label) ==
    << Matching(t.priv, label), Matching(t.pub, label), vk[label] >>

\* C14: the keys change only through generateKeyPair, which adds, and
\* deleteKeyPair, which removes; every other step leaves the token's objects
\* and the service's keys and their configuration as they were, and a
\* deleteKeyPair that raises leaves the keys of its label exactly as they were.
C14_KeysFrame ==
    [][ /\ last'.op \notin {"generateKeyPair", "deleteKeyPair"}
           => (token' = token /\ vkeys' = vkeys)
        /\ last'.op = "generateKeyPair"
           => /\ token.priv \subseteq token'.priv /\ token.pub \subseteq token'.pub
              /\ \A l \in Labels : vkeys[l] # NoKey => vkeys'[l] = vkeys[l]
        /\ last'.op = "deleteKeyPair"
           => /\ token'.priv \subseteq token.priv /\ token'.pub \subseteq token.pub
              /\ \A l \in Labels : vkeys'[l] # vkeys[l] => l = last'.label
              /\ (last'.out.st = "throw" /\ last'.label \in Labels)
                 => KeysOf(token', vkeys', last'.label)
                      = KeysOf(token, vkeys, last'.label) ]_vars

\* The backend requests that act on keys.
KeyRequests ==
    {"generateKeyPair", "getAttribute", "getAttribute value", "find", "sign", "verify", "destroy",
     "write keys", "read keys", "write sign", "write verify", "write config",
     "delete"}

\* The request that completes an establishment.
Completes(type) == IF type = "softhsm" THEN "login" ELSE "health"

\* Request k of calls comes after an answered establishment in the same call.
EstablishedBefore(type, calls, k) ==
    \E j \in 1..(k - 1) : calls[j] = Call(Completes(type), TRUE)

\* C15: on either adapter every backend key request of a call is preceded by
\* a successful establishment that no close() has undone: the instance was
\* established when the call began, or the call's own implicit initialization
\* completed before the request.
C15_EstablishedBeforeKeyRequest ==
    [][ last'.op # "idle" =>
          \A k \in 1..Len(last'.calls) :
              last'.calls[k].c \in KeyRequests =>
                  \/ life[last'.inst] = "ready"
                  \/ EstablishedBefore(hsm[last'.inst].type, last'.calls, k) ]_vars

\* A key operation, called on an adapter that was not initialized, whose
\* implicit initialization was followed by backend key requests.
C15_Witness ==
    /\ last.op \in {"generateKeyPair", "sign", "verify", "deleteKeyPair"}
    /\ ~last.pre
    /\ \E k \in 1..Len(last.calls) :
           /\ last.calls[k].c \in KeyRequests
           /\ EstablishedBefore(hsm[last.inst].type, last.calls, k)

\* The driver library as the process starts with it, and as a finalize that
\* took effect leaves it.
Finalized == [initialized |-> FALSE, open |-> {}, login |-> FALSE]

\* An establishment that throws because a request of this very attempt was
\* refused by the environment: the driver is not installed, the token is not
\* there, or a driver or network request failed on its own.
FailsOnItsOwn(out) ==
    /\ out.st = "throw"
    /\ \/ out.err.kind \in {"NotInstalled", "NotFound"}
       \/ out.err.cause \in {"load", "initialize", "getSlots", "open", "login",
                             "network"}

\* A step that is a call on instance last'.inst: close() leaves the adapter
\* as constructed; isInitialized() is true exactly from a successful
\* establishment to the next close(); and on a closed adapter, when `clean`
\* holds, a call other than close() establishes afresh exactly once, or fails
\* only as an establishment on a new adapter can.
ClosedIsNew(clean) ==
    last'.op # "idle" =>
        /\ last'.op = "close" =>
               hsm'[last'.inst] = getHSM(hsm[last'.inst].type)
        /\ \A j \in Inst : hsm'[j].initialized <=> (life'[j] = "ready")
        /\ last'.op = "isInitialized" =>
               last'.out = Ok(life[last'.inst] = "ready")
        /\ ( /\ life[last'.inst] = "closed" /\ clean
             /\ last'.op \notin {"close", "isInitialized"} ) =>
               IF hsm'[last'.inst].initialized
               THEN /\ EstablishedOnce'
                    /\ last'.op = "initialize" => last'.out = Ok(NULL)
               ELSE FailsOnItsOwn(last'.out)

Requests ==
    KeyRequests \cup Establishment \cup {"getSlots", "logout", "close", "finalize"}

\* How many times a call may make a request of kind c without making the
\* same request twice: once, but for the local deleteKeyPair, which searches
\* once per object class and destroys each object it found once.
AtMost(op, type, c, t, label) ==
    IF op = "deleteKeyPair" /\ type = "softhsm" /\ label \in Labels
    THEN CASE c = "find" -> 2
           [] c = "destroy" -> Cardinality(Matching(t.priv, label))
                               + Cardinality(Matching(t.pub, label))
           [] OTHER -> 1
    ELSE 1

\* The requests of a trace that failed.
Failed(calls) == {calls[k].c : k \in {k \in 1..Len(calls) : ~calls[k].ok}}

\* A step that is a call: it makes no request more often than AtMost says,
\* raises when the liveness check or the sign request failed, and when the
\* remote verify request failed ends as `how` says: raising, or returning
\* false.
NoRetry(how) ==
    last'.op # "idle" =>
        /\ \A k \in 1..Len(last'.calls) :
               /\ last'.calls[k].c \in Requests
               /\ Issued(last'.calls, last'.calls[k].c)
                    <= AtMost(last'.op, hsm[last'.inst].type, last'.calls[k].c,
                              token, last'.label)
        /\ hsm[last'.inst].type = "vault" =>
               /\ Failed(last'.calls) \cap {"health", "write sign"} # {}
                      => last'.out.st = "throw"
               /\ "write verify" \in Failed(last'.calls) =>
                      IF how = "false" THEN last'.out = Ok(FALSE)
                      ELSE last'.out.st = "throw"

\* C17: neither adapter retries: a call makes each backend request at most
\* once; a failed liveness check or sign request is raised after that one
\* attempt, and a failed remote verify request ends the call after that one
\* attempt with the verdict false.
C17_NoRetryVerifyFalse == [][ NoRetry("false") ]_vars

\* A remote sign on an initialized adapter whose one request failed: raised,
\* with no second attempt.
C17_Witness ==
    /\ Ran("vault", "sign") /\ last.pre
    /\ last.calls = << Call("write sign", FALSE) >>
    /\ last.out.st = "throw"

\* C17, as stated: ... a failed remote verify request is raised to the caller
\* as a failed liveness check or sign request is.
C17_NoRetrySurfaced == [][ NoRetry("raise") ]_vars

\* The call is a remote verify, with the label and the payload of the
\* signature the caller holds, that the adapter passed to the service.
VerifiesHeldRemotely ==
    /\ Ran("vault", "verify") /\ held # NoSig
    /\ last.label = held.label /\ last.payload = held.payload

\* The held signature without its <engine tag>:<version tag>: prefix.
Stripped == << held.sig[Len(held.sig)] >>

\* C18: on the remote adapter a signature that sign returned has the form
\* <engine tag>:<version tag>:<body>; verify of the full string, under the
\* key that signed and with the request answered, returns true, and verify
\* of the body alone returns false and raises nothing.
C18_PrefixRequired ==
    VerifiesHeldRemotely =>
        /\ Len(held.sig) = 3 /\ held.sig[1] = Text("vault") /\ held.sig[2] = Text("v1")
        /\ (last.sig = held.sig /\ HeldKeyWhole /\ Served) => Returned(TRUE)
        /\ last.sig = Stripped => Returned(FALSE)

\* The body alone, verified under the key that signed: false.
C18_Witness ==
    /\ VerifiesHeldRemotely /\ last.sig = Stripped /\ HeldKeyWhole
    /\ Returned(FALSE)

\* The hex text of the modulus of a public key object that has the label.
PublicOf(label) ==
    {HexEncode(Modulus(o.pair)) : o \in Matching(token.pub, label)}

\* C19: in every reachable state every private key object of the token is
\* sensitive and not extractable, so that the driver gives its private
\* exponent to no read, and every public key object can verify; what the
\* local generateKeyPair and getPublicKey return is the modulus of a public
\* key object under the label, for getPublicKey that of the first one listed.
C19_PrivateStaysInside ==
    /\ \A o \in token.priv :
           /\ o.sensitive /\ ~o.extractable
           /\ GetAttribute(o, "privateExponent").threw
    /\ \A o \in token.pub : o.verify
    /\ (Ran("softhsm", "generateKeyPair") /\ last.out.st = "ok") =>
           last.out.val.publicKey \in PublicOf(last.label)
    /\ (Ran("softhsm", "getPublicKey") /\ last.out.st = "ok") =>
           /\ last.found # <<>> /\ last.found[1] \in token.pub
           /\ last.out.val = HexEncode(Modulus(last.found[1].pair))

\* getPublicKey answered for a label whose private key is in the token.
C19_Witness ==
    /\ Ran("softhsm", "getPublicKey") /\ last.out.st = "ok"
    /\ Matching(token.priv, last.label) # {}

\* The adapter holds what it needs to serve a call: a live session of the
\* driver, or for the remote adapter nothing but its flag.
Connected(h, l) == h.type = "softhsm" => (h.initialized => SessionLive(h, l))

\* C20: a call on one instance leaves every other instance as it was, its
\* initialized status and its session with the driver; and the first
\* initialize() of an instance is not refused because another instance has
\* initialized the driver library.
C20_NoInterference ==
    [][ last'.op # "idle" =>
          /\ \A j \in Inst \ {last'.inst} :
                 /\ hsm'[j] = hsm[j]
                 /\ Connected(hsm[j], lib) => Connected(hsm'[j], lib')
          /\ ( /\ life[last'.inst] = "new" /\ last'.out.st = "throw"
               /\ last'.out.err.kind = "DriverError" )
             => last'.out.err.cause # "AlreadyInitialized" ]_vars

\* The names of the requests of a trace, in order.
Names(calls) == [k \in 1..Len(calls) |-> calls[k].c]

\* C21: the local close() attempts logout, session close and finalize in
\* that order, whichever of them failed: all three when the adapter was
\* initialized, and never a later step without the ones before it being
\* attempted first; it raises nothing and leaves the adapter uninitialized
\* with no session handle and no driver handle.
C21_TeardownInOrder ==
    Did("softhsm", "close") =>
        /\ Names(last.calls) \in { <<>>, << "finalize" >>,
                                   << "logout", "close", "finalize" >> }
        /\ last.was = "ready" => Names(last.calls) = << "logout", "close", "finalize" >>
        /\ last.out = Ok(NULL)
        /\ hsm[last.inst] = getHSM("softhsm")

\* A close() of an initialized adapter whose logout and session close both
\* failed and whose finalize was attempted all the same.
C21_Witness ==
    /\ Did("softhsm", "close") /\ last.was = "ready"
    /\ last.calls[1] = Call("logout", FALSE) /\ last.calls[2] = Call("close", FALSE)
    /\ Len(last.calls) = 3 /\ last.calls[3].c = "finalize"

\* The slot the resolution order names, as an index into the slots reported
\* (0: none): the first slot with the configured label; with no label, the
\* slot at the configured index; with neither, the first slot.
Expected(cfg, slots) ==
    LET hits == {k \in 1..Len(slots) : Trim(slots[k]) = cfg.tokenLabel} IN
    IF cfg.tokenLabel # NULL
    THEN IF hits = {} THEN 0
         ELSE CHOOSE k \in hits : \A j \in hits : k <= j
    ELSE IF cfg.slot # -1
         THEN IF cfg.slot < Len(slots) THEN cfg.slot + 1 ELSE 0
    ELSE IF Len(slots) = 0 THEN 0 ELSE 1

\* C22: an initialize() of the local adapter that obtained the slots resolves
\* the slot the order names; when the order names none it raises the
\* not-found error, requests no session, and leaves the adapter without a
\* session and uninitialized.
C22_SlotResolution ==
    ( /\ Did("softhsm", "initialize") /\ ~last.pre
      /\ Answered(last.calls, "getSlots") ) =>
        LET e == Expected(hsm[last.inst].cfg, last.slots) IN
        /\ last.slot = e
        /\ e = 0 => /\ last.out.st = "throw" /\ last.out.err.kind = "NotFound"
                    /\ Issued(last.calls, "open") = 0
                    /\ hsm[last.inst].session = 0 /\ ~hsm[last.inst].initialized

IsKeyRequest(call) == call.c # "health"

\* The requests of the call after those of its implicit initialize().
BodyCalls == SelectSeq(last.calls, IsKeyRequest)

\* C23: a remote deleteKeyPair whose initialization succeeded sends the
\* deletion-allowed configuration write first and the delete only after that
\* write was accepted; it returns when both were accepted and otherwise
\* raises a deletion error.
C23_ConfigThenDelete ==
    Ran("vault", "deleteKeyPair") =>
        /\ BodyCalls \in { CallsFailing(<<"write config">>),
                           CallsFailing(<<"write config", "delete">>),
                           Calls(<<"write config", "delete">>) }
        /\ IF BodyCalls = Calls(<<"write config", "delete">>)
           THEN last.out = Ok(NULL)
           ELSE last.out.st = "throw" /\ last.out.err.kind = "VaultDelete"

\* A remote deleteKeyPair whose configuration write was refused: no delete
\* sent, a deletion error raised.
C23_Witness ==
    /\ Ran("vault", "deleteKeyPair")
    /\ BodyCalls = << Call("write config", FALSE) >>
    /\ last.out.st = "throw" /\ last.out.err.kind = "VaultDelete"

\* The key type RSA, ECDSA and ED25519 map to, ED25519 standing for an
\* omitted algorithm; "" for any other value.
MappedType(algorithm) ==
    CASE algorithm = "rsa" -> "rsa-2048"
      [] algorithm = "ecdsa" -> "ecdsa-p256"
      [] algorithm = "ed25519" -> "ed25519"
      [] algorithm = "omitted" -> "ed25519"
      [] OTHER -> ""

\* C24: a remote generateKeyPair whose initialization succeeded asks for a
\* key of the type its algorithm maps to, and for an algorithm outside the
\* three raises the unsupported-algorithm error with no request sent.
C24_TypeMapping ==
    Ran("vault", "generateKeyPair") =>
        IF MappedType(last.alg) = ""
        THEN /\ last.out.st = "throw" /\ last.out.err.kind = "Unsupported"
             /\ BodyCalls = <<>>
        ELSE /\ last.type = MappedType(last.alg)
             /\ BodyCalls # <<>> /\ BodyCalls[1].c = "write keys"

\* The call read the key metadata.
ReadKeys == Ran("vault", "generateKeyPair") /\ Answered(last.calls, "read keys")

\* C25: a remote generateKeyPair that read the key metadata returns the
\* public key of the version whose number is the greatest, numbers compared
\* as numbers, and raises a generation error when the metadata has no version.
C25_HighestVersion ==
    ReadKeys =>
        IF DOMAIN last.keys = {}
        THEN last.out.st = "throw" /\ last.out.err.kind = "VaultGenerate"
        ELSE \E v \in DOMAIN last.keys :
               /\ \A w \in DOMAIN last.keys : Number(w) <= Number(v)
               /\ Returned([publicKey |-> HexEncode(Utf8(last.keys[v].public_key))])

C25_Witness ==
    /\ ReadKeys
    /\ { <<9>>, <<1, 0>> } \subseteq DOMAIN last.keys
    /\ <<1, 1>> \notin DOMAIN last.keys /\ <<2, 0>> \notin DOMAIN last.keys
    /\ Returned([publicKey |-> HexEncode(Utf8(last.keys[<<1, 0>>].public_key))])

KeyOperations == {"generateKeyPair", "sign", "verify", "deleteKeyPair"}

\* The errors initialize() throws.
InitializationErrors(type) ==
    IF type = "vault" THEN { Throw("VaultInitialize", "network").err }
    ELSE { Throw("NotInstalled", "require").err }
         \cup { Throw("DriverError", c).err :
                    c \in {"load", "initialize", "AlreadyInitialized", "getSlots",
                           "open", "login"} }
         \cup { Throw("NotFound", c).err :
                    c \in {"TokenNotFound", "SlotNotFound", "NoSlots"} }

\* A key operation on an adapter that was not initialized, whose implicit
\* initialization did not complete.
ImplicitFailed ==
    /\ last.op \in KeyOperations
    /\ ~last.pre
    /\ ~Answered(last.calls, Completes(hsm[last.inst].type))

\* C26: on either adapter a key operation whose implicit initialization
\* failed raises the initialization error, makes no key request and leaves
\* the adapter uninitialized; verify raises like the others.
C26_FailedInitSurfaces ==
    ImplicitFailed =>
        /\ last.out.st = "throw"
        /\ last.out.err \in InitializationErrors(hsm[last.inst].type)
        /\ \A k \in 1..Len(last.calls) : last.calls[k].c \notin KeyRequests
        /\ ~hsm[last.inst].initialized

C26_Witness ==
    /\ ImplicitFailed /\ last.op = "verify"
    /\ last.calls = << Call("health", FALSE) >>
    /\ last.out = Throw("VaultInitialize", "network")
    /\ ~hsm[last.inst].initialized

\* C27: a remote adapter on which close() has returned, with no call started
\* since, is not initialized, whatever calls were suspended when close()
\* was called.
C27_ClosedStaysUninitialized ==
    \A i \in Inst :
        (hsm[i].type = "vault" /\ life[i] = "closed") => ~hsm[i].initialized

\* C28: the local adapter, alone on its library, holds every session it
\* opened and has not closed and the module it initialized and has not
\* finalized.
C28_TracksResources ==
    \A i \in Inst :
        hsm[i].type = "softhsm" =>
            /\ lib.open \subseteq { hsm[i].session }
            /\ lib.initialized => hsm[i].pkcs11 # NULL

\* C29: a remote generateKeyPair that raises a generation error leaves no key
\* on the service under a label that had none before the call.
C29_AllOrNothing ==
    [][ ( /\ last'.op = "generateKeyPair"
          /\ hsm[last'.inst].type = "vault"
          /\ last'.out.st = "throw"
          /\ last'.out.err.kind = "VaultGenerate" )
        => \A l \in Labels : vkeys[l] = NoKey => vkeys'[l] = NoKey ]_vars

\* C30: every label has as many private key objects on the token as public
\* ones.
C30_HalvesBalanced ==
    \A l \in Labels :
        Cardinality(Matching(token.priv, l)) = Cardinality(Matching(token.pub, l))

\* C31: on the local token, whatever listing the driver gives the two
\* lookups, the private key sign resolves for a label and the public key
\* verify resolves for it are the halves of one generated pair.
C31_SameGeneratedPair ==
    \A l \in Labels :
        \A privs \in Find(token.priv, l), pubs \in Find(token.pub, l) :
            (FindKey(privs, "PrivateKey").found /\ FindKey(pubs, "PublicKey").found)
                => FindKey(privs, "PrivateKey").key.pair
                       = FindKey(pubs, "PublicKey").key.pair

====
